---------------------------- MODULE Spec2Model ----------------------------
(***************************************************************************)
(* Notification-sync core of the git-work applet (src/src/app.rs).         *)
(*                                                                         *)
(* AppModel::update is modelled one action per Message arm.  A message    *)
(* reaches update in one of three ways:                                    *)
(*   - a widget of view_window emits it (the User* actions, guarded by the *)
(*     conditions under which view_window builds and enables the widget);  *)
(*   - a task made with cosmic::task::message or Task::perform(async {})   *)
(*     yields it (the bag `pending` of RefreshNotifications messages);     *)
(*   - a network future completes (the bags `listCalls` and `markCalls`    *)
(*     of calls in flight; the result is chosen when it is delivered).     *)
(* Futures are independent, so results and task messages arrive in any     *)
(* order.                                                                  *)
(***************************************************************************)
EXTENDS Naturals, Integers, Sequences, FiniteSets, Bags, TLC

\* ------------------------------------------------------------------ bounds
\* The user starts nothing new while this many tasks (network futures and
\* message tasks) are outstanding.
MaxTasks == 3
\* The clock stops advancing here.
MaxClock == 26

\* Notification identifiers the server hands out.
NotificationIds == {1, 2}
\* Error strings a failed network call can carry (e.to_string()).
Errors == {"timeout"}
\* Amounts of time that pass between two events.
Elapses == {20, 26}

\* ------------------------------------------------------------- data model
\* Option<T>: None is the empty tuple, Some(x) the one-element tuple.
None == <<>>
Some(x) == <<x>>

\* octocrab's Notification, reduced to the fields update reads.
Notification == [id : NotificationIds, unread : BOOLEAN]

RECURSIVE SeqsUpTo(_, _)
SeqsUpTo(S, n) ==
    IF n = 0 THEN {<<>>}
    ELSE LET shorter == SeqsUpTo(S, n - 1)
         IN  shorter \cup {Append(s, x) : s \in shorter, x \in S}

\* The lists a list_notifications call can return: one entry per identifier.
ServerLists ==
    {s \in SeqsUpTo(Notification, Cardinality(NotificationIds)) :
        \A i, j \in DOMAIN s : i # j => s[i].id # s[j].id}

\* "GitHub token not found. ..." set by init when no client could be built.
TokenError == "GitHub token not found. Please set GITHUB_TOKEN environment variable."

VARIABLES
    client,          \* AppModel.client is Some
    notifications,   \* AppModel.notifications
    is_loading,      \* AppModel.is_loading
    error_message,   \* AppModel.error_message
    show_all,        \* AppModel.show_all
    last_refresh,    \* AppModel.last_refresh
    unread_count,    \* AppModel.unread_count
    now,             \* std::time::Instant::now()
    pending,         \* RefreshNotifications messages yielded by tasks, not yet handled
    listCalls,       \* list_notifications futures in flight
    markCalls,       \* mark_as_read / mark_all_as_read futures in flight
    issued_over,     \* history: Some(<<notifications, unread_count>>) as they were
                     \* when the one list call in flight was issued, else None
    shown,           \* Some(list) while the window still shows the list it was
                     \* built from and the last update has changed it, else None
    item,            \* the reason and URLs of the notification handed to the
                     \* mapping functions, None when none is
    reason_label,    \* Some(format_reason(..)) once computed for item
    web_url,         \* Some(get_notification_url(..)) once computed for item
    server           \* what is known of the notifications GitHub holds:
                     \* "live" they change at any time; "awaiting" they
                     \* change until a mark-all is confirmed and never after;
                     \* "all_read" that mark-all is confirmed, all are read

model == <<client, notifications, is_loading, error_message, show_all,
           last_refresh, unread_count>>
\* What update and the tasks it spawns read and write.
state == <<client, notifications, is_loading, error_message, show_all,
           last_refresh, unread_count, now, pending, listCalls, markCalls,
           issued_over>>
\* What the mapping functions of github.rs read and return.
mapper == <<item, reason_label, web_url>>
vars == <<state, shown, mapper, server>>

\* Tasks the runtime has spawned for this application and not yet completed.
Outstanding ==
    BagCardinality(pending) + BagCardinality(listCalls) + BagCardinality(markCalls)

\* The user is prepared to act.
UserActs == Outstanding < MaxTasks

Add(b, e) == b (+) SetToBag({e})
Remove(b, e) == b (-) SetToBag({e})

\* A RefreshNotifications message a task is about to yield: who scheduled it
\* ("init", "mark_all", "toggle") and, for ToggleShowAll(flag), Some(flag).
RefreshMsg(src, flag) == [src |-> src, flag |-> flag]

\* Variant of ListCall that leaves the filter out of the request, as
\* GitHubService::get_notifications does with its _all parameter.
ListCall_IgnoresFilter(all) == [all |-> FALSE, settled |-> server = "all_read"]

\* A list_notifications future: the `all` it was built with.
ListCall(all) == [all |-> all, settled |-> server = "all_read"]

\* A mark future: the identifier it marks, None for mark_all_as_read.
MarkCall(target) == [target |-> target]

\* Variant of CountUnread that drops the filter and counts every entry.
CountUnread_EveryEntry(ns) == Len(ns)

\* notifications.iter().filter(|n| n.unread).count()
CountUnread(ns) == Cardinality({i \in DOMAIN ns : ns[i].unread})

\* Variant of FlipUnread that falls back to the first entry when no entry has
\* the identifier.
FlipUnread_FirstOnMiss(ns, id) ==
    LET hits == {i \in DOMAIN ns : ns[i].id = id}
    IN  IF ns = <<>> THEN ns
        ELSE LET first == IF hits = {} THEN 1
                          ELSE CHOOSE i \in hits : \A j \in hits : i <= j
             IN  [ns EXCEPT ![first].unread = ~@]

\* iter_mut().find(|n| n.id == notification_id).map(|n| n.unread = !n.unread)
FlipUnread(ns, id) ==
    LET hits == {i \in DOMAIN ns : ns[i].id = id}
    IN  IF hits = {} THEN ns
        ELSE LET first == CHOOSE i \in hits : \A j \in hits : i <= j
             IN  [ns EXCEPT ![first].unread = ~@]

\* format!("Failed to mark as read: {}", error)
MarkFailed(error) == "Failed to mark as read: " \o error

\* ----------------------------------------------------------------- mapper
\* Text is a sequence of tokens: "/" is a token of its own, and no other
\* token contains one, so the searches below see every occurrence of the
\* patterns the code looks for.
ApiHost == <<"api.github.com">>
WebHost == <<"github.com">>
Slash == <<"/">>
HttpsScheme == <<"https:", "/", "/">>

\* The pattern occurs in s at position i.
MatchAt(s, pat, i) ==
    /\ i + Len(pat) - 1 <= Len(s)
    /\ \A k \in 1..Len(pat) : s[i + k - 1] = pat[k]

\* str::contains
Contains(s, pat) == \E i \in 1..Len(s) : MatchAt(s, pat, i)

\* str::replace: every non-overlapping occurrence, left to right.
RECURSIVE ReplaceFrom(_, _, _, _)
ReplaceFrom(s, pat, to, i) ==
    IF i > Len(s) THEN <<>>
    ELSE IF MatchAt(s, pat, i)
         THEN to \o ReplaceFrom(s, pat, to, i + Len(pat))
         ELSE <<s[i]>> \o ReplaceFrom(s, pat, to, i + 1)
Replace(s, pat, to) == ReplaceFrom(s, pat, to, 1)

\* GitHubService::get_notification_url
get_notification_url(notification) ==
    IF notification.subject_url # None
    THEN LET url == Replace(notification.subject_url[1],
                            ApiHost \o Slash \o <<"repos">>, WebHost)
         IN  IF Contains(url, Slash \o <<"pulls">> \o Slash)
             THEN Some(Replace(Replace(url, ApiHost \o Slash \o <<"repos">>,
                                       WebHost),
                               Slash \o <<"pulls">> \o Slash,
                               Slash \o <<"pull">> \o Slash))
             ELSE IF Contains(url, Slash \o <<"issues">> \o Slash)
             THEN Some(Replace(Replace(url, ApiHost \o Slash \o <<"repos">>,
                                       WebHost),
                               Slash \o <<"issues">> \o Slash,
                               Slash \o <<"issues">> \o Slash))
             ELSE notification.html_url
    ELSE notification.html_url

\* GitHubService::format_reason
format_reason(reason) ==
    CASE reason = "assign" -> "You were assigned"
      [] reason = "author" -> "You authored this"
      [] reason = "comment" -> "You commented"
      [] reason = "invitation" -> "You were invited"
      [] reason = "manual" -> "You subscribed"
      [] reason = "mention" -> "You were mentioned"
      [] reason = "review_requested" -> "Review requested"
      [] reason = "security_alert" -> "Security alert"
      [] reason = "state_change" -> "State changed"
      [] reason = "subscribed" -> "You're subscribed"
      [] reason = "team_mention" -> "Team mentioned"
      [] OTHER -> reason

\* The inputs: the reason codes of the GitHub API and one it does not have;
\* resource URLs of four kinds in repositories of owner "o", among them
\* repositories named like a resource kind; the repository's web URL.
Reasons ==
    {"assign", "author", "comment", "invitation", "manual", "mention",
     "review_requested", "security_alert", "state_change", "subscribed",
     "team_mention", "ci_activity", "unknown_future_code"}
Repos == {"r", "pulls", "issues"}
Kinds == {"pulls", "issues", "commits", "releases"}
Numbers == {"42", "7"}

\* https://api.github.com/repos/o/<repo>/<kind>/<n>
ApiUrl(repo, kind, n) ==
    HttpsScheme \o ApiHost \o Slash \o <<"repos">> \o Slash \o <<"o">>
        \o Slash \o <<repo>> \o Slash \o <<kind>> \o Slash \o <<n>>

\* https://github.com/o/<repo>
HtmlUrl(repo) ==
    HttpsScheme \o WebHost \o Slash \o <<"o">> \o Slash \o <<repo>>

\* reason, subject.url and repository.html_url of a Notification.
Items ==
    UNION {[reason : Reasons,
            subject_url : {None} \cup
                {Some(ApiUrl(repo, kind, n)) : kind \in Kinds, n \in Numbers},
            html_url : {None, Some(HtmlUrl(repo))}] : repo \in Repos}

\* ------------------------------------------------------------------- init
\* AppModel after init.
EngineInit ==
    /\ client \in BOOLEAN
    /\ notifications = <<>>
    /\ show_all = FALSE
    /\ last_refresh = None
    /\ unread_count = 0
    /\ now = 0
    /\ listCalls = EmptyBag
    /\ markCalls = EmptyBag
    /\ issued_over = None
    /\ shown = None
    /\ IF client
       THEN /\ is_loading = TRUE
            /\ error_message = None
            /\ pending = SetToBag({RefreshMsg("init", None)})
       ELSE /\ is_loading = FALSE
            /\ error_message = Some(TokenError)
            /\ pending = EmptyBag

Init ==
    /\ EngineInit
    /\ item = None
    /\ reason_label = None
    /\ web_url = None
    /\ server = "live"

\* ------------------------------------------------------------------- view
\* The refresh button: on_press_maybe((!self.is_loading).then_some(..)).
RefreshEnabled == ~is_loading
\* The mark-all button: on_press_maybe((!notifications.is_empty()).then_some(..)).
MarkAllEnabled == notifications # <<>>
\* view_window builds the notification items and the toggler only in its last
\* branch: no error, not loading, a non-empty list.
ListShown == error_message = None /\ ~is_loading /\ notifications # <<>>

\* The window after a step: it still shows the list it was built from when
\* the step is an update that changed the list under a window showing it
\* (the runtime hands update every message of a batch, task results first,
\* and rebuilds the view only after the last one).
StillShown ==
    shown' = IF ListShown /\ notifications' # notifications
             THEN Some(notifications)
             ELSE None

\* ----------------------------------------------------------------- update
\* Variant of RefreshNotifications without the `if let Some(client)` guard.
RefreshNotifications_Unguarded ==
    /\ is_loading' = TRUE
    /\ error_message' = None
    /\ listCalls' = Add(listCalls, ListCall(show_all))
    /\ issued_over' = None
    /\ UNCHANGED <<client, notifications, show_all, last_refresh,
                   unread_count, now, markCalls>>

\* Message::RefreshNotifications
RefreshNotifications ==
    IF client
    THEN /\ is_loading' = TRUE
         /\ error_message' = None
         /\ listCalls' = Add(listCalls, ListCall(show_all))
         /\ issued_over' = IF listCalls = EmptyBag
                           THEN Some(<<notifications, unread_count>>)
                           ELSE None
         /\ UNCHANGED <<client, notifications, show_all, last_refresh,
                        unread_count, now, markCalls>>
    ELSE UNCHANGED <<model, now, listCalls, markCalls, issued_over>>

\* The user presses the refresh button.
UserRefresh ==
    /\ UserActs
    /\ RefreshEnabled
    /\ RefreshNotifications
    /\ UNCHANGED pending
    /\ StillShown
    /\ UNCHANGED <<mapper, server>>

\* A task yields its RefreshNotifications message.
TaskRefresh(m) ==
    /\ BagIn(m, pending)
    /\ pending' = Remove(pending, m)
    /\ RefreshNotifications
    /\ StillShown
    /\ UNCHANGED <<mapper, server>>

\* Variant of the Ok arm that merges: held entries the server did not return
\* are kept after the returned ones.
NotificationsLoadedOk_KeepsUnlisted(c, list) ==
    /\ BagIn(c, listCalls)
    /\ c.settled => \A i \in DOMAIN list : ~list[i].unread
    /\ listCalls' = Remove(listCalls, c)
    /\ is_loading' = FALSE
    /\ last_refresh' = Some(now)
    /\ notifications' =
           LET Unlisted(n) == \A i \in DOMAIN list : list[i].id # n.id
           IN  list \o SelectSeq(notifications, Unlisted)
    /\ unread_count' = CountUnread(notifications')
    /\ error_message' = None
    /\ issued_over' = None
    /\ UNCHANGED <<client, show_all, now, pending, markCalls>>
    /\ StillShown
    /\ UNCHANGED <<mapper, server>>

\* Message::NotificationsLoaded(Ok(list)) for the call c
NotificationsLoadedOk(c, list) ==
    /\ BagIn(c, listCalls)
    /\ c.settled => \A i \in DOMAIN list : ~list[i].unread
    /\ notifications' = list
    /\ unread_count' = CountUnread(list)
    /\ is_loading' = FALSE
    /\ last_refresh' = Some(now)
    /\ error_message' = None
    /\ listCalls' = Remove(listCalls, c)
    /\ issued_over' = None
    /\ UNCHANGED <<client, show_all, now, pending, markCalls>>
    /\ StillShown
    /\ UNCHANGED <<mapper, server>>

\* Variant of the Err arm that also discards the held list.
NotificationsLoadedErr_DropsList(c, error) ==
    /\ BagIn(c, listCalls)
    /\ listCalls' = Remove(listCalls, c)
    /\ is_loading' = FALSE
    /\ last_refresh' = Some(now)
    /\ error_message' = Some(error)
    /\ notifications' = <<>>
    /\ unread_count' = 0
    /\ issued_over' = None
    /\ UNCHANGED <<client, show_all, now, pending, markCalls>>
    /\ StillShown
    /\ UNCHANGED <<mapper, server>>

\* Variant of the Err arm that leaves is_loading set.
NotificationsLoadedErr_KeepsLoading(c, error) ==
    /\ BagIn(c, listCalls)
    /\ listCalls' = Remove(listCalls, c)
    /\ last_refresh' = Some(now)
    /\ error_message' = Some(error)
    /\ issued_over' = None
    /\ UNCHANGED <<client, notifications, is_loading, show_all, unread_count,
                   now, pending, markCalls>>
    /\ StillShown
    /\ UNCHANGED <<mapper, server>>

\* Message::NotificationsLoaded(Err(error)) for the call c
NotificationsLoadedErr(c, error) ==
    /\ BagIn(c, listCalls)
    /\ listCalls' = Remove(listCalls, c)
    /\ is_loading' = FALSE
    /\ last_refresh' = Some(now)
    /\ error_message' = Some(error)
    /\ issued_over' = None
    /\ UNCHANGED <<client, notifications, show_all, unread_count, now,
                   pending, markCalls>>
    /\ StillShown
    /\ UNCHANGED <<mapper, server>>

\* The mark_as_read future both OpenNotification and MarkAsRead spawn.
SpawnMark(target) ==
    /\ markCalls' = Add(markCalls, MarkCall(target))
    /\ UNCHANGED <<model, now, pending, listCalls, issued_over>>

\* Message::OpenNotification(notification)
OpenNotification(notification) ==
    IF client /\ notification.unread
    THEN SpawnMark(Some(notification.id))
    ELSE UNCHANGED state

\* The user presses the title link of the i-th item shown.
UserOpen(i) ==
    /\ UserActs
    /\ ListShown
    /\ i \in DOMAIN notifications
    /\ OpenNotification(notifications[i])
    /\ StillShown
    /\ UNCHANGED <<mapper, server>>

\* The user presses the title link of the i-th item of a window built before
\* the last update: on_press carries the notification cloned at that time.
UserOpenShown(i) ==
    /\ UserActs
    /\ shown # None
    /\ i \in DOMAIN shown[1]
    /\ OpenNotification(shown[1][i])
    /\ StillShown
    /\ UNCHANGED <<mapper, server>>

\* Message::MarkAsRead(notification_id)
MarkAsRead(notification_id) ==
    IF client
    THEN SpawnMark(Some(notification_id))
    ELSE UNCHANGED state

\* The user presses the mark-read icon, which only unread items carry.
UserMarkAsRead(i) ==
    /\ UserActs
    /\ ListShown
    /\ i \in DOMAIN notifications
    /\ notifications[i].unread
    /\ MarkAsRead(notifications[i].id)
    /\ StillShown
    /\ UNCHANGED <<mapper, server>>

\* Variant of MarkAllAsRead that schedules the refresh together with the
\* mark_all_as_read call instead of waiting for its result.
MarkAllAsRead_RefreshesAtOnce ==
    IF client
    THEN /\ markCalls' = Add(markCalls, MarkCall(None))
         /\ pending' = Add(pending, RefreshMsg("mark_all", None))
         /\ UNCHANGED <<model, now, listCalls, issued_over>>
    ELSE UNCHANGED state

\* Message::MarkAllAsRead
MarkAllAsRead ==
    IF client
    THEN SpawnMark(None)
    ELSE UNCHANGED state

\* The user presses the mark-all button.
UserMarkAll ==
    /\ UserActs
    /\ MarkAllEnabled
    /\ MarkAllAsRead
    /\ StillShown
    /\ UNCHANGED <<mapper, server>>

\* Message::NotificationMarkedAsRead(Ok(None)) for the call c
MarkedAsReadOkNone(c) ==
    /\ BagIn(c, markCalls)
    /\ c.target = None
    /\ markCalls' = Remove(markCalls, c)
    /\ pending' = Add(pending, RefreshMsg("mark_all", None))
    /\ UNCHANGED <<model, now, listCalls, issued_over>>
    /\ StillShown
    /\ server' = IF server = "live" THEN "live" ELSE "all_read"
    /\ UNCHANGED mapper

\* Message::NotificationMarkedAsRead(Ok(Some(id))) for the call c
MarkedAsReadOkSome(c) ==
    /\ BagIn(c, markCalls)
    /\ c.target # None
    /\ markCalls' = Remove(markCalls, c)
    /\ notifications' = FlipUnread(notifications, c.target[1])
    /\ UNCHANGED <<client, is_loading, error_message, show_all, last_refresh,
                   unread_count, now, pending, listCalls, issued_over>>
    /\ StillShown
    /\ UNCHANGED <<mapper, server>>

\* Variant of the Err arm that refreshes after a failure as the Ok(None) arm
\* does after a success.
MarkedAsReadErr_Refreshes(c, error) ==
    /\ BagIn(c, markCalls)
    /\ markCalls' = Remove(markCalls, c)
    /\ error_message' = Some(MarkFailed(error))
    /\ pending' = Add(pending, RefreshMsg("mark_all", None))
    /\ UNCHANGED <<client, notifications, is_loading, show_all, last_refresh,
                   unread_count, now, listCalls, issued_over>>
    /\ StillShown
    /\ UNCHANGED <<mapper, server>>

\* Message::NotificationMarkedAsRead(Err(error)) for the call c
MarkedAsReadErr(c, error) ==
    /\ BagIn(c, markCalls)
    /\ markCalls' = Remove(markCalls, c)
    /\ error_message' = Some(MarkFailed(error))
    /\ UNCHANGED <<client, notifications, is_loading, show_all, last_refresh,
                   unread_count, now, pending, listCalls, issued_over>>
    /\ StillShown
    /\ UNCHANGED <<mapper, server>>

\* Variant of ToggleShowAll that discards the list fetched under the old
\* filter.
ToggleShowAll_DropsList(flag) ==
    /\ show_all' = flag
    /\ notifications' = <<>>
    /\ unread_count' = 0
    /\ pending' = Add(pending, RefreshMsg("toggle", Some(flag)))
    /\ UNCHANGED <<client, is_loading, error_message, last_refresh, now,
                   listCalls, markCalls, issued_over>>

\* Message::ToggleShowAll(flag)
ToggleShowAll(flag) ==
    /\ show_all' = flag
    /\ pending' = Add(pending, RefreshMsg("toggle", Some(flag)))
    /\ UNCHANGED <<client, notifications, is_loading, error_message,
                   last_refresh, unread_count, now, listCalls, markCalls,
                   issued_over>>

\* The user flips the "Show all" toggler.
UserToggle(flag) ==
    /\ UserActs
    /\ ListShown
    /\ ToggleShowAll(flag)
    /\ StillShown
    /\ UNCHANGED <<mapper, server>>

\* Time passes.  subscription() registers the configuration watcher and
\* nothing else, so no message is emitted as the clock advances.
TimePasses(d) ==
    /\ now + d <= MaxClock
    /\ now' = now + d
    /\ UNCHANGED <<model, pending, listCalls, markCalls, issued_over>>
    /\ StillShown
    /\ UNCHANGED <<mapper, server>>

Next ==
    \/ UserRefresh
    \/ \E m \in BagToSet(pending) : TaskRefresh(m)
    \/ \E c \in BagToSet(listCalls), list \in ServerLists : NotificationsLoadedOk(c, list)
    \/ \E c \in BagToSet(listCalls), e \in Errors : NotificationsLoadedErr(c, e)
    \/ \E i \in DOMAIN notifications : UserOpen(i)
    \/ \E i \in 1..Cardinality(NotificationIds) : UserOpenShown(i)
    \/ \E i \in DOMAIN notifications : UserMarkAsRead(i)
    \/ UserMarkAll
    \/ \E c \in BagToSet(markCalls) : MarkedAsReadOkNone(c)
    \/ \E c \in BagToSet(markCalls) : MarkedAsReadOkSome(c)
    \/ \E c \in BagToSet(markCalls), e \in Errors : MarkedAsReadErr(c, e)
    \/ \E flag \in BOOLEAN : UserToggle(flag)
    \/ \E d \in Elapses : TimePasses(d)

Spec == Init /\ [][Next]_vars

\* ------------------------------------------------------- a settled server
\* The run in which no network call fails and GitHub changes nothing once it
\* has confirmed a mark-all: every list call issued after the confirmation
\* is answered with read notifications only.
QuietInit ==
    /\ EngineInit
    /\ item = None
    /\ reason_label = None
    /\ web_url = None
    /\ server = "awaiting"

QuietNext ==
    \/ UserRefresh
    \/ \E m \in BagToSet(pending) : TaskRefresh(m)
    \/ \E c \in BagToSet(listCalls), list \in ServerLists : NotificationsLoadedOk(c, list)
    \/ \E i \in DOMAIN notifications : UserOpen(i)
    \/ \E i \in 1..Cardinality(NotificationIds) : UserOpenShown(i)
    \/ \E i \in DOMAIN notifications : UserMarkAsRead(i)
    \/ UserMarkAll
    \/ \E c \in BagToSet(markCalls) : MarkedAsReadOkNone(c)
    \/ \E c \in BagToSet(markCalls) : MarkedAsReadOkSome(c)
    \/ \E flag \in BOOLEAN : UserToggle(flag)

QuietSpec == QuietInit /\ [][QuietNext]_vars

\* ------------------------------------------------- every task completes
\* The runtime hands update the message of every task it was given, and every
\* network call returns, with a result or an error.  The clock is left out:
\* update writes last_refresh and never reads it.
LiveNext ==
    \/ UserRefresh
    \/ \E m \in BagToSet(pending) : TaskRefresh(m)
    \/ \E c \in BagToSet(listCalls), list \in ServerLists : NotificationsLoadedOk(c, list)
    \/ \E c \in BagToSet(listCalls), e \in Errors : NotificationsLoadedErr(c, e)
    \/ \E i \in DOMAIN notifications : UserOpen(i)
    \/ \E i \in 1..Cardinality(NotificationIds) : UserOpenShown(i)
    \/ \E i \in DOMAIN notifications : UserMarkAsRead(i)
    \/ UserMarkAll
    \/ \E c \in BagToSet(markCalls) : MarkedAsReadOkNone(c)
    \/ \E c \in BagToSet(markCalls) : MarkedAsReadOkSome(c)
    \/ \E c \in BagToSet(markCalls), e \in Errors : MarkedAsReadErr(c, e)
    \/ \E flag \in BOOLEAN : UserToggle(flag)

\* A task yields its message.
MessageDelivered == \E m \in BagToSet(pending) : TaskRefresh(m)

\* A list_notifications call returns.
ListCallReturns ==
    \E c \in BagToSet(listCalls) :
        \/ \E list \in ServerLists : NotificationsLoadedOk(c, list)
        \/ \E e \in Errors : NotificationsLoadedErr(c, e)

\* A mark_as_read or mark_all_as_read call returns.
MarkCallReturns ==
    \E c \in BagToSet(markCalls) :
        \/ MarkedAsReadOkNone(c)
        \/ MarkedAsReadOkSome(c)
        \/ \E e \in Errors : MarkedAsReadErr(c, e)

LiveSpec ==
    /\ Init
    /\ [][LiveNext]_vars
    /\ WF_vars(MessageDelivered)
    /\ WF_vars(ListCallReturns)
    /\ WF_vars(MarkCallReturns)

\* --------------------------------------------------- the mapping functions
\* notification_item labels the item: format_reason(&notification.reason).
LabelReason ==
    /\ reason_label = None
    /\ reason_label' = Some(format_reason(item.reason))
    /\ UNCHANGED <<state, shown, item, web_url, server>>

\* The OpenNotification arm derives the address to open:
\* get_notification_url(&notification).
DeriveUrl ==
    /\ web_url = None
    /\ web_url' = Some(get_notification_url(item))
    /\ UNCHANGED <<state, shown, item, reason_label, server>>

\* One notification of the inputs is handed to the mapping functions.
MapperInit ==
    /\ EngineInit
    /\ item \in Items
    /\ reason_label = None
    /\ web_url = None
    /\ server = "live"

MapperNext == LabelReason \/ DeriveUrl

MapperSpec == MapperInit /\ [][MapperNext]_vars

\* ------------------------------------------------------------------ claims
\* The number of entries of ns whose unread flag is set, counted directly.
IsUnread(n) == n.unread
UnreadIn(ns) == Len(SelectSeq(ns, IsUnread))

\* A step in which a list_notifications future completed with an error
\* (update stores an error only in its Err arms, and clears it on Ok).
FailedRefreshStep ==
    /\ BagCardinality(listCalls') < BagCardinality(listCalls)
    /\ error_message' # None

\* A step in which a list_notifications future completed with a list.
SucceededRefreshStep ==
    /\ BagCardinality(listCalls') < BagCardinality(listCalls)
    /\ error_message' = None

\* A step in which a list_notifications future was spawned.
ListCallIssued == BagCardinality(listCalls') > BagCardinality(listCalls)

\* C1: at most one refresh is in flight at any time: in no reachable state
\* are two list_notifications calls outstanding, whoever asked for them.
C1_AtMostOneRefreshInFlight == BagCardinality(listCalls) <= 1

\* C2: processing a successful mark_as_read(id) result leaves the notification
\* with that id read and every other notification as it was.
C2_MarkReadSuccessClearsFlag ==
    [][\A c \in BagToSet(markCalls) :
          MarkedAsReadOkSome(c) =>
             /\ Len(notifications') = Len(notifications)
             /\ \A i \in DOMAIN notifications :
                   IF notifications[i].id = c.target[1]
                   THEN notifications'[i] = [notifications[i] EXCEPT !.unread = FALSE]
                   ELSE notifications'[i] = notifications[i]]_vars

\* C3: right after a successful refresh result is processed, unread_count is
\* the number of unread notifications in the sequence just stored.
C3_RefreshRecountsUnread ==
    [][SucceededRefreshStep => unread_count' = UnreadIn(notifications')]_vars

\* C3 witness: a refresh has succeeded (a list is held, no error, not loading)
\* and the list mixes read and unread entries.
C3_Witness ==
    /\ last_refresh # None
    /\ error_message = None
    /\ ~is_loading
    /\ Len(notifications) = 2
    /\ UnreadIn(notifications) = 1
    /\ unread_count = 1

\* C4: in every reachable state unread_count is the number of held
\* notifications whose unread flag is set.
C4_UnreadCountIsDerived == unread_count = UnreadIn(notifications)

\* C5 (as claimed): when a refresh fails, is_loading is false, the error slot
\* holds the error, and notifications and unread_count are what they were
\* when that refresh was issued.
C5_FailedRefreshRestoresIssueState ==
    [][(FailedRefreshStep /\ issued_over # None) =>
          /\ ~is_loading'
          /\ \E e \in Errors : error_message' = Some(e)
          /\ <<notifications', unread_count'>> = issued_over[1]]_vars

\* C5 (amended): when a refresh fails, is_loading is false, the error slot
\* holds the error, and notifications and unread_count are what they were
\* immediately before the result was processed.
C5_FailedRefreshKeepsHeldState ==
    [][FailedRefreshStep =>
          /\ ~is_loading'
          /\ \E e \in Errors : error_message' = Some(e)
          /\ notifications' = notifications
          /\ unread_count' = unread_count]_vars

\* C5 witness: a refresh has failed while a non-empty list was held.
C5_Witness ==
    /\ error_message \in {Some(e) : e \in Errors}
    /\ ~is_loading
    /\ notifications # <<>>
    /\ unread_count > 0

\* C6: when a mark_as_read or mark_all_as_read call fails, only the error slot
\* changes, and no refresh or other network call is issued.
C6_MarkFailureTouchesOnlyError ==
    [][\A c \in BagToSet(markCalls), e \in Errors :
          MarkedAsReadErr(c, e) =>
             /\ UNCHANGED <<notifications, unread_count, is_loading, show_all,
                            last_refresh>>
             /\ error_message' # None
             /\ listCalls' = listCalls
             /\ pending' = pending
             /\ BagCardinality(markCalls') < BagCardinality(markCalls)]_vars

\* C6 witness: a mark call has failed and its error is shown over a held list.
C6_Witness ==
    /\ error_message \in {Some(MarkFailed(e)) : e \in Errors}
    /\ notifications # <<>>

\* C7: the passage of time drives a timer whose tick refreshes exactly when
\* more than 25 time units have passed since the last refresh result.
C7_TimerTickRefreshes ==
    [][(now' # now /\ client /\ last_refresh # None) =>
          ((now' - last_refresh[1] > 25) <=>
              (ListCallIssued \/ BagCardinality(pending') > BagCardinality(pending)))]_vars

\* C8: processing a failed refresh result leaves last_refresh unchanged.
C8_FailureKeepsLastRefresh ==
    [][FailedRefreshStep => last_refresh' = last_refresh]_vars

\* The step issues one list call, made with this value of all.
IssuedWith(all) ==
    \E c \in BagToSet(listCalls') :
        c.all = all /\ listCalls' = Add(listCalls, c)

\* C9 (as claimed): ToggleShowAll(flag) sets show_all to flag, stores no error
\* and schedules exactly one refresh, whose list call is made with all = flag.
C9_ToggleRefreshesWithFlag ==
    /\ [][\A flag \in BOOLEAN :
             ToggleShowAll(flag) =>
                /\ show_all' = flag
                /\ error_message' = error_message
                /\ listCalls' = listCalls
                /\ pending' = Add(pending, RefreshMsg("toggle", Some(flag)))]_vars
    /\ [][\A m \in BagToSet(pending) :
             (m.src = "toggle" /\ TaskRefresh(m)) =>
                IssuedWith(m.flag[1])]_vars

\* C9 (amended): ToggleShowAll(flag) sets show_all to flag, stores no error
\* and schedules exactly one refresh, whose list call is made with all = the
\* value show_all has when that RefreshNotifications message is handled.
C9_ToggleRefreshesWithCurrentFilter ==
    /\ [][\A flag \in BOOLEAN :
             ToggleShowAll(flag) =>
                /\ show_all' = flag
                /\ error_message' = error_message
                /\ listCalls' = listCalls
                /\ pending' = Add(pending, RefreshMsg("toggle", Some(flag)))]_vars
    /\ [][\A m \in BagToSet(pending) :
             (m.src = "toggle" /\ TaskRefresh(m)) =>
                /\ IssuedWith(show_all)
                /\ error_message' = None]_vars

\* C9 witness: two toggles to the same value have each scheduled a refresh,
\* so the second one did not change show_all.
C9_Witness ==
    \E flag \in BOOLEAN :
        /\ CopiesIn(RefreshMsg("toggle", Some(flag)), pending) = 2
        /\ show_all = flag

\* The number of refreshes scheduled by mark-all confirmations and not yet
\* handled.
MarkAllRefreshes(p) == CopiesIn(RefreshMsg("mark_all", None), p)

\* C10: a mark-all success edits no local unread flag and issues no list call
\* itself; it schedules one refresh, and such a refresh is scheduled only by
\* the step that processes a mark-all confirmation.
C10_MarkAllRefreshFollowsConfirmation ==
    /\ [][\A c \in BagToSet(markCalls) :
             MarkedAsReadOkNone(c) =>
                /\ notifications' = notifications
                /\ unread_count' = unread_count
                /\ listCalls' = listCalls
                /\ MarkAllRefreshes(pending') = MarkAllRefreshes(pending) + 1]_vars
    /\ [][MarkAllRefreshes(pending') > MarkAllRefreshes(pending) =>
             CopiesIn(MarkCall(None), markCalls') < CopiesIn(MarkCall(None), markCalls)]_vars

\* C10 witness: a mark-all confirmation has been processed, its refresh is
\* scheduled, and the held list still shows an unread entry.
C10_Witness ==
    /\ MarkAllRefreshes(pending) = 1
    /\ UnreadIn(notifications) > 0
    /\ CopiesIn(MarkCall(None), markCalls) = 0

\* A step in which update handles OpenNotification(n), pressed on a window
\* built from the current list or from the list before the last update.
OpenedStep(n) ==
    \/ \E i \in DOMAIN notifications : notifications[i] = n /\ UserOpen(i)
    \/ /\ shown # None
       /\ \E i \in DOMAIN shown[1] : shown[1][i] = n /\ UserOpenShown(i)

\* The held notification with this identifier is unread.
CurrentlyUnread(id) ==
    \E j \in DOMAIN notifications :
        notifications[j].id = id /\ notifications[j].unread

\* C12: handling OpenNotification(n) issues a mark_as_read call for n.id if
\* and only if the held notification with that identifier is unread at that
\* moment; when it is already read, also when its flag was cleared after the
\* window cloned n, no call is issued and nothing changes.
C12_OpenMarksIffCurrentlyUnread ==
    [][\A n \in Notification :
          (markCalls' # markCalls \/ UNCHANGED state) /\ OpenedStep(n) =>
              IF CurrentlyUnread(n.id)
              THEN markCalls' = Add(markCalls, MarkCall(Some(n.id)))
              ELSE UNCHANGED state]_vars

\* C13: started without a credential, the engine has no client, holds the
\* token error, is not loading, and stays so: no network call is ever in
\* flight, the list stays empty and the error stays set.
C13_NoCredentialStaysIdle ==
    ~client =>
        /\ error_message = Some(TokenError)
        /\ ~is_loading
        /\ notifications = <<>>
        /\ unread_count = 0
        /\ listCalls = EmptyBag
        /\ markCalls = EmptyBag
        /\ pending = EmptyBag

\* An engine without a client late in a run, the refresh button having been
\* enabled all along.
C13_Witness == ~client /\ RefreshEnabled /\ now = MaxClock

\* A step in which a mark_as_read or mark_all_as_read future completed with Ok.
MarkSucceededStep ==
    \E c \in BagToSet(markCalls) : MarkedAsReadOkSome(c) \/ MarkedAsReadOkNone(c)

\* C14: once the result of a successful operation has been handled, a
\* refresh, a mark_as_read or a mark_all_as_read, the error slot is empty.
C14_SuccessClearsError ==
    [][SucceededRefreshStep \/ MarkSucceededStep => error_message' = None]_vars

\* C15: in an engine with a client, is_loading is set exactly while a refresh
\* is under way: it is never false while a list call is in flight, and never
\* true when no list call is in flight and no RefreshNotifications message is
\* waiting.
C15_LoadingIffRefreshUnderWay ==
    client =>
        /\ listCalls # EmptyBag => is_loading
        /\ is_loading => (listCalls # EmptyBag \/ pending # EmptyBag)

\* C16: a successful refresh replaces the held sequence by exactly the
\* sequence the server returned, in the server's order: no held entry
\* survives unless it was returned, and local flag edits are overwritten.
C16_RefreshReplacesWholesale ==
    [][SucceededRefreshStep =>
          \A c \in BagToSet(listCalls), list \in ServerLists :
              NotificationsLoadedOk(c, list) => notifications' = list]_vars

\* A successful refresh has replaced a non-empty list by a different one in
\* which identifier 2 comes before identifier 1.
C16_Witness ==
    /\ shown # None
    /\ shown[1][1].id = 1
    /\ shown[1][1].unread
    /\ Len(notifications) = 2
    /\ notifications[1].id = 2
    /\ notifications[2].id = 1
    /\ ~notifications[2].unread

\* No held notification has this identifier.
NotHeld(id) == \A j \in DOMAIN notifications : notifications[j].id # id

\* C18: a mark_as_read success for an identifier that no held notification
\* has (never held, or removed by a refresh handled while the call was in
\* flight) leaves notifications, unread_count, is_loading, show_all and the
\* error slot as they were.
C18_MarkSuccessForAbsentIdIsInert ==
    [][\A c \in BagToSet(markCalls) :
          /\ markCalls' # markCalls
          /\ MarkedAsReadOkSome(c)
          /\ NotHeld(c.target[1])
          => UNCHANGED <<notifications, unread_count, is_loading, show_all,
                         error_message>>]_vars

\* A mark_as_read call is in flight for an identifier that a refresh has
\* removed from a list that still holds another notification.
C18_Witness ==
    /\ notifications # <<>>
    /\ last_refresh # None
    /\ \E c \in BagToSet(markCalls) : c.target # None /\ NotHeld(c.target[1])

\* The reason codes the specification lists for reason_label.
ListedReasons ==
    {"assign", "author", "comment", "invitation", "manual", "mention",
     "review_requested", "security_alert", "state_change", "subscribed",
     "team_mention", "ci_activity"}

\* C19: format_reason maps each of the twelve listed reason codes to a phrase
\* that differs from the code, "mention" to "You were mentioned", and returns
\* every other code unchanged.
C19_ReasonLabelFollowsVocabulary ==
    reason_label # None =>
        IF item.reason \in ListedReasons
        THEN /\ reason_label[1] # item.reason
             /\ item.reason = "mention" => reason_label[1] = "You were mentioned"
        ELSE reason_label[1] = item.reason

\* The address the stated cases give for a resource of this kind.
StatedUrl(repo, kind, n, fallback) ==
    CASE kind = "pulls" ->
             Some(HtmlUrl(repo) \o Slash \o <<"pull">> \o Slash \o <<n>>)
      [] kind = "issues" ->
             Some(HtmlUrl(repo) \o Slash \o <<"issues">> \o Slash \o <<n>>)
      [] OTHER -> fallback

\* C20: get_notification_url returns a value for every notification, and it
\* is the one the stated cases give: .../pulls/<n> becomes /pull/<n> on the
\* web host, .../issues/<n> keeps its path on the web host, a resource URL of
\* another kind and a missing resource URL give the repository's web URL,
\* and the result is none when that URL is missing.
C20_UrlFollowsStatedCases ==
    web_url # None =>
        /\ item.subject_url = None => web_url[1] = item.html_url
        /\ \A repo \in Repos, kind \in Kinds, n \in Numbers :
               item.subject_url = Some(ApiUrl(repo, kind, n)) =>
                   web_url[1] = StatedUrl(repo, kind, n, item.html_url)

\* C17: after a ToggleShowAll, once no refresh is outstanding (no list call
\* in flight, no RefreshNotifications message waiting) and the last refresh
\* result handled was a success, the held list is the answer to a list call
\* made with all = show_all.  Such a state is entered only by handling the
\* result of the one call left, and show_all then stays until the next
\* toggle schedules a refresh, so the call answered must carry show_all.
C17_HeldListAnswersCurrentFilter ==
    [][/\ SucceededRefreshStep
       /\ listCalls' = EmptyBag
       /\ pending' = EmptyBag
       => \A c \in BagToSet(listCalls) : c.all = show_all']_vars

\* C11: after a confirmed mark-all, with every network call completing
\* successfully and the server changing nothing further, stale unread flags
\* are not displayed indefinitely: from some point on no held notification
\* is unread, whatever the order in which results are handled.  With
\* nothing outstanding the engine changes state only at the user's next
\* intent (no timer refreshes it), so what it holds then is displayed
\* indefinitely, and it must hold no unread notification.
C11_NoStaleUnreadAfterMarkAll ==
    server = "all_read" /\ Outstanding = 0 => UnreadIn(notifications) = 0

\* The identifiers of the notifications of ns, in order.
Ids(ns) == [i \in DOMAIN ns |-> ns[i].id]

\* C22: only a successful refresh result changes which notifications are
\* held and in what order; issuing a refresh, a failed refresh, MarkAsRead,
\* MarkAllAsRead, OpenNotification, every NotificationMarkedAsRead result and
\* ToggleShowAll leave the sequence of identifiers as it was.  show_all is
\* changed by ToggleShowAll only, the step that schedules a refresh tagged
\* with the new value.
C22_OnlyRefreshSuccessChangesIds ==
    [][/\ Ids(notifications') # Ids(notifications) => SucceededRefreshStep
       /\ show_all' # show_all =>
              pending' = Add(pending, RefreshMsg("toggle", Some(show_all')))]_vars

\* The toggler has been flipped to "show all" over a held list, a mark
\* result has edited a flag of that list, and the notifications held are
\* the same and in the same order.
C22_Witness ==
    /\ show_all
    /\ BagIn(RefreshMsg("toggle", Some(TRUE)), pending)
    /\ shown # None
    /\ notifications # shown[1]
    /\ Ids(notifications) = Ids(shown[1])

\* A step in which a mark_as_read or mark_all_as_read call returned an error.
MarkFailedStep ==
    /\ BagCardinality(markCalls') < BagCardinality(markCalls)
    /\ \E e \in Errors : error_message' = Some(MarkFailed(e))

\* A step in which update handled RefreshNotifications.
RefreshHandledStep == UserRefresh \/ MessageDelivered

\* C21: the engine stays usable after any error.  With every issued call
\* returning, an engine that is loading eventually is not, so none is stuck
\* with is_loading set; a failed refresh leaves the refresh button enabled,
\* a failed mark-read or mark-all leaves it as it was, and every
\* RefreshNotifications handled by an engine with a client, in whatever
\* state errors left it, issues a list call.
C21_EngineStaysUsable ==
    /\ (client /\ is_loading) ~> ~is_loading
    /\ [][FailedRefreshStep => RefreshEnabled']_vars
    /\ [][MarkFailedStep => RefreshEnabled' = RefreshEnabled]_vars
    /\ [][client /\ RefreshHandledStep => ListCallIssued /\ is_loading']_vars

\* The one list call in flight has failed: the engine with a client holds the
\* error, is not loading, and offers the refresh button.
C21_Witness ==
    /\ client
    /\ \E e \in Errors : error_message = Some(e)
    /\ listCalls = EmptyBag
    /\ ~is_loading
    /\ RefreshEnabled

=============================================================================
